---- MODULE Spec2Model ----
(***************************************************************************)
(* The scrape-job execution engine of the web scraping pipeline:           *)
(* WebScraper (scraper.py) driving DatabaseManager (database.py) with the  *)
(* settings of config.py.  The program is single threaded; pc is the       *)
(* position of its one thread.  The network, the page contents, the store  *)
(* and the file system are the environment: each request, insert and file  *)
(* write draws its outcome from a small set.                               *)
(***************************************************************************)
EXTENDS Integers, Sequences, FiniteSets, TLC

\* ---- bounds of the model
MaxItems == 2       \* item blocks on one listing page
MaxOld == 1         \* records each job of an earlier run of the program stored
MaxTick == 1        \* the most the clock advances between two successive reads

\* ---- config.py
max_retries == 3
delay_between_requests == 1
\* scraper.py:220, the pause between the jobs of a run
job_pause == 2

\* config.py TARGET_URLS: the two books URLs are the same string
TARGET_URLS ==
    [books |-> <<"https://pdfdrive.com.co/", "https://pdfdrive.com.co/">>,
     products |-> <<"https://webscraper.io/test-sites/e-commerce/allinone">>]

\* a target run_scraping_job has no branch for
OtherTarget == "widgets"
CallTargets == {"books", "products", OtherTarget}

\* the loop of scraper.py:218 written with its targets in the other order
RunAllTargetsReversed == <<"products", "books">>

\* scraper.py:218, the targets of a run, in order
RunAllTargets == <<"books", "products">>

VARIABLES
    pc,             \* position of the thread
    caller,         \* who called run_scraping_job: "main" or "run_all"
    jobNo,          \* number of run_scraping_job executions started; stamps start_time
    target,         \* run_scraping_job: target
    urlIdx,         \* scrape_*: position in the for loop over urls
    all_data,       \* scrape_*: all_books / all_products
    page,           \* scrape_*: the item blocks found on the current page
    itemIdx,        \* scrape_*: position in the for loop over the item blocks
    pageStart,      \* Len(all_data) when the current page was parsed
    ctx,            \* who called fetch_page: "listing" or "detail"
    attempt,        \* fetch_page: attempt
    html,           \* fetch_page: what the last call returned
    fReqs,          \* requests issued by the current fetch_page call
    fSleeps,        \* the backoff sleeps of the current fetch_page call, in order
    records_saved,  \* run_scraping_job: records_saved
    status,         \* the status passed to log_scraping_run
    error_message,  \* the error_message passed to log_scraping_run
    ret,            \* what run_scraping_job returned
    tables,         \* the data tables books and products: rows in insertion order
    scraping_logs,  \* the table scraping_logs
    files,          \* output/: what each file holds
    results,        \* run_all_scraping_jobs: results
    raIdx,          \* run_all_scraping_jobs: position in the for loop over targets
    stats,          \* run_all_scraping_jobs: stats
    report,         \* output/scraping_report.txt
    jobOrder,       \* the jobs the current run has started, in order
    jobRets,        \* what the finished jobs of the current run returned, in order
    seen            \* what the current job has done so far

vars == <<pc, caller, jobNo, target, urlIdx, all_data, page, itemIdx, pageStart,
          ctx, attempt, html, fReqs, fSleeps, records_saved, status,
          error_message, ret, tables, scraping_logs, files, results, raIdx,
          stats, report, jobOrder, jobRets, seen>>

jobVars == <<target, urlIdx, all_data, page, itemIdx, pageStart, records_saved,
             status, error_message, ret>>
fetchVars == <<ctx, attempt, html, fReqs, fSleeps>>
storeVars == <<tables, scraping_logs, files>>
runVars == <<results, raIdx, stats, report, jobOrder, jobRets>>

\* ---- values

\* what fetch_page hands back: response.text (a page or the empty string),
\* None, or an exception that is no RequestException passing through it
Absent == [kind |-> "none", items |-> <<>>, meta |-> FALSE]
EmptyText == [kind |-> "empty", items |-> <<>>, meta |-> FALSE]
Raised == [kind |-> "raised", items |-> <<>>, meta |-> FALSE]

\* a listing page: its item blocks in document order, each well formed
\* ("good") or raising while its fields are read ("bad")
ListingPages ==
    {[kind |-> "page", items |-> s, meta |-> FALSE] :
        s \in UNION {[1..n -> {"good", "bad"}] : n \in 0..MaxItems}}

\* a detail page, with or without its <meta name="description">
DetailPages == {[kind |-> "page", items |-> <<>>, meta |-> m] : m \in BOOLEAN}

Contents(c) ==
    IF c = "listing" THEN ListingPages \cup {EmptyText}
    ELSE DetailPages \cup {EmptyText}

NoFile == [written |-> FALSE, job |-> 0, rows |-> 0]
FileNames == {"books.csv", "books_latest.csv", "products.csv", "products_latest.csv"}

\* data.db and output/ outlive the process.  An earlier run of the program
\* (scheduler.py --once) whose two jobs each stored n records left n rows in
\* each table, the two exports of each target and two log entries; the
\* snapshot of an empty scrape is never written (scraper.py:159-161)
OldRows(n) == [k \in 1..n |-> 0]
OldFile(n) == [written |-> TRUE, job |-> 0, rows |-> n]
OldLog(t, n) ==
    [start_time |-> 0, target |-> t, status |-> "success", records_scraped |-> n,
     error_message |-> ""]
Snapshots == {"books.csv", "products.csv"}

\* fetch: a request was issued; absent: listing fetches that returned None;
\* insert: an insert into a data table was issued; rejected: the store
\* refused it; export: a file was written or its writing tried; logCalls:
\* calls of log_scraping_run; logTaken: the store took the log entry;
\* degraded: the item blocks of the page being read whose detail fetch
\* returned None or raised
\* times: duration_seconds and end_time - start_time of the log entry of
\* the job, once the store has taken it
\* lastNet: what the crawl did last, of sending a request ("req") and
\* sleeping a backoff or a politeness delay ("pause")
\* delays: politeness delays slept by the scrape; urls: for each URL the
\* scrape is done with, in order, its position in the list, whether
\* fetch_page returned a response for it and the well-formed blocks it had
NoSeen == [fetch |-> FALSE, absent |-> 0, insert |-> FALSE, rejected |-> FALSE,
           export |-> FALSE, logCalls |-> 0, logTaken |-> FALSE, delays |-> 0,
           urls |-> <<>>, phases |-> <<>>, degraded |-> {},
           lastNet |-> "none",
           times |-> [duration_seconds |-> 0, end_after_start |-> 0]]

\* the record s of the job with the step ph added to the steps it has taken
\* (phases: "start", "fetch", "store", "snapshot", "latest", "log"; a step
\* taken several times in a row is noted once)
Noted(s, ph) ==
    [s EXCEPT !.phases = IF @ # <<>> /\ @[Len(@)] = ph THEN @ ELSE Append(@, ph)]

\* run_scraping_job calling the store after the two exports
StepAfterStoreLast(step) ==
    CASE step = "scrape" -> "csv"
      [] step = "csv" -> "export"
      [] step = "export" -> "save"
      [] step = "save" -> "log_success"

\* scraper.py:178-192 (and :184-192), the statement run_scraping_job goes to
\* after a step returned: scrape, save to the store, save_to_csv,
\* export_to_csv, log_scraping_run
StepAfter(step) ==
    CASE step = "scrape" -> "save"
      [] step = "save" -> "csv"
      [] step = "csv" -> "export"
      [] step = "export" -> "log_success"

Init ==
    /\ pc = "idle"
    /\ caller = "main"
    /\ jobNo = 0
    /\ target = "books"
    /\ urlIdx = 1
    /\ all_data = <<>>
    /\ page = <<>>
    /\ itemIdx = 1
    /\ pageStart = 0
    /\ ctx = "listing"
    /\ attempt = 0
    /\ html = Absent
    /\ fReqs = 0
    /\ fSleeps = <<>>
    /\ records_saved = 0
    /\ status = "success"
    /\ error_message = ""
    /\ ret = FALSE
    /\ \/ /\ tables = [books |-> <<>>, products |-> <<>>]
          /\ scraping_logs = <<>>
          /\ files = [f \in FileNames |-> NoFile]
       \/ \E n \in 0..MaxOld :
          /\ tables = [books |-> OldRows(n), products |-> OldRows(n)]
          /\ scraping_logs = <<OldLog("books", n), OldLog("products", n)>>
          /\ files = [f \in FileNames |->
                        IF f \in Snapshots /\ n = 0 THEN NoFile ELSE OldFile(n)]
    /\ results = <<>>
    /\ raIdx = 1
    /\ stats = <<>>
    /\ report = <<>>
    /\ jobOrder = <<>>
    /\ jobRets = <<>>
    /\ seen = NoSeen

\* ---- pure parts of the code

\* scraper.py:70 and :150-155, the category field, computed from the page URL
Category(url) ==
    IF url = "https://pdfdrive.com.co/" THEN "pdfdrive.com.co"
    ELSE IF url = "https://webscraper.io/test-sites/e-commerce/allinone" THEN "allinone"
    ELSE "unknown"

\* scraper.py:65-73, the record of item block i of a books page
book_data(url, i, description) ==
    [item |-> i, category |-> Category(url), description |-> description]

\* scraper.py:132-140, the record of item block i of a products page; its
\* description is read from the block itself
product_data(url, i) ==
    [item |-> i, category |-> Category(url), description |-> "text"]

\* scraper.py:57 and :104, `not html_content`: None and '' are both falsy
Falsy(h) == h.kind \in {"none", "empty"}

\* _get_book_description handing on what a failed fetch left it with
DescriptionOrNone(h) == IF h.kind = "page" /\ h.meta THEN "meta" ELSE "None"

\* scraper.py:88-94, _get_book_description after its fetch_page call
Description(h) == IF h.kind = "page" /\ h.meta THEN "meta" ELSE ""

\* the test of scraper.py:43 off by one: a sleep and an attempt too many
RetryLeftOffByOne(a) == a < max_retries

\* scraper.py:43, is another attempt left after failed attempt a
RetryLeft(a) == a < max_retries - 1

\* the sleep of scraper.py:44 growing linearly
BackoffLinear(a) == 2 * a

\* scraper.py:44, the sleep after failed attempt a (attempts count from 0)
Backoff(a) == 2 ^ a

\* the branch of scraper.py:177-190 with its else arm never taken
KnownTargetAny(t) == TRUE

\* scraper.py:177-190, the targets run_scraping_job has a branch for
KnownTarget(t) == t \in {"books", "products"}

\* the except of scraper.py:76-77 leaving the loop instead of going on
AfterItemErrorAbort(i, n) == n + 1

\* scraper.py:76-77 and :143-144, the loop position after an item block raised
AfterItemError(i, n) == i + 1

\* _save_data returning len(data) from its except arm too
SaveCountIgnoresRejection(data, accepted) == Len(data)

\* database.py:75-93, _save_data: the count it returns
SaveCount(data, accepted) ==
    IF data = <<>> THEN 0 ELSE IF accepted THEN Len(data) ELSE 0

\* _save_data writing the table anew from the batch instead of appending to it
InsertedReplacing(rows, data, accepted, job) ==
    IF data # <<>> /\ accepted THEN [k \in 1..Len(data) |-> job] ELSE rows

\* database.py:80-86, the table after the insert: every record becomes one
\* row; the store reads no field of it and stamps it with scraped_at, which
\* the job number stands for
Inserted(rows, data, accepted, job) ==
    IF data # <<>> /\ accepted THEN rows \o [k \in 1..Len(data) |-> job] ELSE rows

\* run_scraping_job taking a job that saved nothing for a failed one
JobEndingEmptyFails(raised, saved, msg) ==
    IF raised \/ saved = 0
    THEN [status |-> "failed", records_scraped |-> 0, error_message |-> msg,
          returns |-> FALSE]
    ELSE [status |-> "success", records_scraped |-> saved, error_message |-> "",
          returns |-> TRUE]

\* run_scraping_job with the `return False` of scraper.py:211 lost
JobEndingReturnsTrue(raised, saved, msg) ==
    IF raised
    THEN [status |-> "failed", records_scraped |-> 0, error_message |-> msg,
          returns |-> TRUE]
    ELSE [status |-> "success", records_scraped |-> saved, error_message |-> "",
          returns |-> TRUE]

\* scraper.py:192-211, how run_scraping_job ends: what it passes to
\* log_scraping_run and what it returns
JobEnding(raised, saved, msg) ==
    IF raised
    THEN [status |-> "failed", records_scraped |-> 0, error_message |-> msg,
          returns |-> FALSE]
    ELSE [status |-> "success", records_scraped |-> saved, error_message |-> "",
          returns |-> TRUE]

\* database.py:55 with :112, the end_time of an entry is the column default
\* datetime.now, read when the insert is executed: the clock stood at
\* start_time + elapsed when database.py:99 read it and has advanced by tick
\* since.  The result is end_time - start_time.
EndTime(elapsed, tick) == elapsed + tick

\* database.py:99-109 with :55, the two time columns of the entry that
\* log_scraping_run inserts besides start_time: elapsed is
\* datetime.now() - start_time at database.py:99
EntryTimes(elapsed, tick) ==
    [duration_seconds |-> elapsed, end_after_start |-> EndTime(elapsed, tick)]

\* database.py:95-116, log_scraping_run: scraping_logs after the call.  The
\* time columns of the entry are kept apart from it, for the entry of the
\* job that runs only (seen.times): nothing reads or changes them later
LogAppended(logs, job, t, e, accepted) ==
    IF accepted
    THEN Append(logs, [start_time |-> job, target |-> t, status |-> e.status,
                       records_scraped |-> e.records_scraped,
                       error_message |-> e.error_message])
    ELSE logs

\* the positions of the well-formed item blocks of p, in document order
GoodIndices(p) ==
    LET IsGood(i) == p[i] = "good"
    IN SelectSeq([i \in 1..Len(p) |-> i], IsGood)

\* the loop of scraper.py:53-58 with `break` for `continue`
AfterSkipBreak(i, n) == n + 1

\* scraper.py:57-58 and :104-105, the loop position after a URL that gave
\* nothing: `continue` goes to the next URL of the n
AfterSkip(i, n) == i + 1

\* ---- run_scraping_job

\* scraper.py:170-175, the call: start_time is taken before anything else
BeginJob(t, c) ==
    /\ pc' = "dispatch"
    /\ caller' = c
    /\ jobNo' = jobNo + 1
    /\ target' = t
    /\ urlIdx' = 1
    /\ all_data' = <<>>
    /\ page' = <<>>
    /\ itemIdx' = 1
    /\ pageStart' = 0
    /\ records_saved' = 0
    /\ status' = "success"
    /\ error_message' = ""
    /\ ret' = FALSE
    /\ ctx' = "listing"
    /\ attempt' = 0
    /\ html' = Absent
    /\ fReqs' = 0
    /\ fSleeps' = <<>>
    /\ seen' = Noted(NoSeen, "start")
    /\ jobOrder' = IF c = "run_all" THEN Append(jobOrder, t) ELSE jobOrder

\* scraper.py:281-284, a job started on its own
CallRunJob(t) ==
    /\ pc = "idle"
    /\ BeginJob(t, "main")
    /\ UNCHANGED <<storeVars, results, raIdx, stats, report, jobRets>>

\* scraper.py:177-190, the branch on target; an unknown one raises ValueError
Dispatch ==
    /\ pc = "dispatch"
    /\ IF KnownTarget(target)
       THEN /\ pc' = "scrape_url"
            /\ UNCHANGED error_message
       ELSE /\ pc' = "log_failed"
            /\ error_message' = "Unknown target"
    /\ UNCHANGED <<caller, jobNo, target, urlIdx, all_data, page, itemIdx,
                   pageStart, records_saved, status, ret, fetchVars, storeVars,
                   runVars, seen>>

\* ---- scrape_books / scrape_products

\* scraper.py:53-55 and :100-102, the next URL of the list is fetched
ScrapeNextUrl ==
    /\ pc = "scrape_url"
    /\ urlIdx <= Len(TARGET_URLS[target])
    /\ pc' = "fetch_req"
    /\ ctx' = "listing"
    /\ attempt' = 0
    /\ fReqs' = 0
    /\ fSleeps' = <<>>
    /\ UNCHANGED <<caller, jobNo, jobVars, html, storeVars, runVars, seen>>

\* scraper.py:81 and :148, the list is exhausted: the scrape returns
ScrapeReturn ==
    /\ pc = "scrape_url"
    /\ urlIdx > Len(TARGET_URLS[target])
    /\ pc' = StepAfter("scrape")
    /\ UNCHANGED <<caller, jobNo, jobVars, fetchVars, storeVars, runVars, seen>>

\* where fetch_page returns to
ReturnPoint(c) == IF c = "listing" THEN "page_check" ELSE "desc_ret"

\* scraper.py:37-40, a request that is answered: its text is returned
FetchOk(content) ==
    /\ pc = "fetch_req"
    /\ content \in Contents(ctx)
    /\ fReqs' = fReqs + 1
    /\ html' = content
    /\ pc' = ReturnPoint(ctx)
    /\ seen' = Noted([seen EXCEPT !.fetch = TRUE, !.lastNet = "req"], "fetch")
    /\ UNCHANGED <<caller, jobNo, jobVars, ctx, attempt, fSleeps, storeVars, runVars>>

\* scraper.py:41-47, a request that raises RequestException
FetchFail ==
    /\ pc = "fetch_req"
    /\ fReqs' = fReqs + 1
    /\ IF RetryLeft(attempt)
       THEN /\ pc' = "fetch_sleep"
            /\ UNCHANGED html
       ELSE /\ pc' = ReturnPoint(ctx)
            /\ html' = Absent
    /\ seen' = Noted([seen EXCEPT !.fetch = TRUE,
                                  !.absent = IF ~RetryLeft(attempt) /\ ctx = "listing"
                                             THEN @ + 1 ELSE @,
                                  !.degraded = IF ~RetryLeft(attempt) /\ ctx = "detail"
                                               THEN @ \cup {itemIdx} ELSE @,
                                  !.lastNet = "req"], "fetch")
    /\ UNCHANGED <<caller, jobNo, jobVars, ctx, attempt, fSleeps, storeVars, runVars>>

\* scraper.py:37 with :41, a request that raises something that is no
\* RequestException: fetch_page lets it pass.  Under _get_book_description
\* the bare except of :92 catches it; otherwise it reaches :202
FetchCrash ==
    /\ pc = "fetch_req"
    /\ fReqs' = fReqs + 1
    /\ html' = Raised
    /\ IF ctx = "detail"
       THEN /\ pc' = "desc_ret"
            /\ UNCHANGED error_message
       ELSE /\ pc' = "log_failed"
            /\ error_message' = "fetch raised"
    /\ seen' = Noted([seen EXCEPT !.fetch = TRUE,
                                  !.degraded = IF ctx = "detail"
                                               THEN @ \cup {itemIdx} ELSE @,
                                  !.lastNet = "req"], "fetch")
    /\ UNCHANGED <<caller, jobNo, target, urlIdx, all_data, page, itemIdx,
                   pageStart, records_saved, status, ret, ctx, attempt, fSleeps,
                   storeVars, runVars>>

\* scraper.py:44, the backoff sleep, then the next attempt
FetchBackoff ==
    /\ pc = "fetch_sleep"
    /\ fSleeps' = Append(fSleeps, Backoff(attempt))
    /\ attempt' = attempt + 1
    /\ pc' = "fetch_req"
    /\ seen' = [seen EXCEPT !.lastNet = "pause"]
    /\ UNCHANGED <<caller, jobNo, jobVars, ctx, html, fReqs, storeVars, runVars>>

\* scraper.py:33-47, fetch_page has returned and its caller has used the
\* result: the locals of the call are gone
FetchLocalsGone ==
    /\ attempt' = 0
    /\ html' = Absent
    /\ fReqs' = 0
    /\ fSleeps' = <<>>
    /\ UNCHANGED ctx

\* scraper.py:57-58 and :104-105, nothing fetched: continue with the next URL
PageSkip ==
    /\ pc = "page_check"
    /\ Falsy(html)
    /\ urlIdx' = AfterSkip(urlIdx, Len(TARGET_URLS[target]))
    /\ pc' = "scrape_url"
    /\ FetchLocalsGone
    /\ seen' = [seen EXCEPT !.urls = Append(@, [url |-> urlIdx,
                                                fetched |-> html.kind # "none",
                                                items |-> <<>>])]
    /\ UNCHANGED <<caller, jobNo, target, all_data, page, itemIdx, pageStart,
                   records_saved, status, error_message, ret,
                   storeVars, runVars>>

\* scraper.py:60-61 and :107-108, the page is parsed into its item blocks
PageParse ==
    /\ pc = "page_check"
    /\ ~Falsy(html)
    /\ page' = html.items
    /\ itemIdx' = 1
    /\ pageStart' = Len(all_data)
    /\ pc' = "items"
    /\ FetchLocalsGone
    /\ seen' = [seen EXCEPT !.urls = Append(@, [url |-> urlIdx,
                                                fetched |-> TRUE,
                                                items |-> GoodIndices(html.items)])]
    /\ UNCHANGED <<caller, jobNo, target, urlIdx, all_data, records_saved, status,
                   error_message, ret, storeVars, runVars>>

\* scraper.py:64-77 and :111-144, an item block that raises while its fields
\* are read: the except of the loop body logs it and the loop goes on
ItemBad ==
    /\ pc = "items"
    /\ itemIdx <= Len(page)
    /\ page[itemIdx] = "bad"
    /\ itemIdx' = AfterItemError(itemIdx, Len(page))
    /\ UNCHANGED <<pc, caller, jobNo, target, urlIdx, all_data, page, pageStart,
                   records_saved, status, error_message, ret, fetchVars,
                   storeVars, runVars, seen>>

\* scraper.py:111-142, a well-formed product block is appended
ItemProduct ==
    /\ pc = "items"
    /\ target = "products"
    /\ itemIdx <= Len(page)
    /\ page[itemIdx] = "good"
    /\ all_data' = Append(all_data, product_data(TARGET_URLS[target][urlIdx], itemIdx))
    /\ itemIdx' = itemIdx + 1
    /\ UNCHANGED <<pc, caller, jobNo, target, urlIdx, page, pageStart,
                   records_saved, status, error_message, ret, fetchVars,
                   storeVars, runVars, seen>>

\* scraper.py:65-72 with :83-87, a well-formed book block: its fields are
\* read in order, description last, which fetches the detail page
ItemBook ==
    /\ pc = "items"
    /\ target = "books"
    /\ itemIdx <= Len(page)
    /\ page[itemIdx] = "good"
    /\ pc' = "fetch_req"
    /\ ctx' = "detail"
    /\ attempt' = 0
    /\ fReqs' = 0
    /\ fSleeps' = <<>>
    /\ UNCHANGED <<caller, jobNo, jobVars, html, storeVars, runVars, seen>>

\* scraper.py:88-94 with :73-75, the description is back and the book is appended
DescReturn ==
    /\ pc = "desc_ret"
    /\ all_data' = Append(all_data,
                          book_data(TARGET_URLS[target][urlIdx], itemIdx, Description(html)))
    /\ itemIdx' = itemIdx + 1
    /\ pc' = "items"
    /\ FetchLocalsGone
    /\ UNCHANGED <<caller, jobNo, target, urlIdx, page, pageStart, records_saved,
                   status, error_message, ret, storeVars, runVars, seen>>

\* scraper.py:79 and :146, the item loop is done: the politeness delay
PageDelay ==
    /\ pc = "items"
    /\ itemIdx > Len(page)
    /\ urlIdx' = urlIdx + 1
    /\ page' = <<>>
    /\ itemIdx' = 1
    /\ pageStart' = 0
    /\ pc' = "scrape_url"
    /\ seen' = [seen EXCEPT !.delays = @ + 1, !.degraded = {}, !.lastNet = "pause"]
    /\ UNCHANGED <<caller, jobNo, target, all_data,
                   records_saved, status, error_message, ret, fetchVars,
                   storeVars, runVars>>

\* ---- persisting, exporting, logging

\* scraper.py:179 and :185 with database.py:67-93, save_books / save_products:
\* nothing is sent to the store for an empty list; otherwise the store takes
\* the whole batch or, raising SQLAlchemyError, none of it
SaveRecords ==
    /\ pc = "save"
    /\ \E accepted \in BOOLEAN :
        /\ tables' = [tables EXCEPT ![target] = Inserted(@, all_data, accepted, jobNo)]
        /\ records_saved' = SaveCount(all_data, accepted)
        /\ seen' = Noted([seen EXCEPT !.insert = all_data # <<>>,
                                      !.rejected = all_data # <<>> /\ ~accepted],
                         "store")
    /\ pc' = StepAfter("save")
    /\ UNCHANGED <<caller, jobNo, target, urlIdx, all_data, page, itemIdx,
                   pageStart, status, error_message, ret, fetchVars,
                   scraping_logs, files, runVars>>

\* scraper.py:157-168, what save_to_csv leaves in the file: nothing is
\* written for an empty list, and a failed write is logged and dropped
SnapshotFile(old, data, ok, job) ==
    IF data = <<>> \/ ~ok THEN old
    ELSE [written |-> TRUE, job |-> job, rows |-> Len(data)]

\* export_to_csv selecting only the rows of the job that calls it
LatestFileJobRowsOnly(old, rows, ok, job) ==
    IF ok
    THEN [written |-> TRUE, job |-> job,
          rows |-> Cardinality({k \in 1..Len(rows) : rows[k] = job})]
    ELSE old

\* database.py:118-133, what export_to_csv leaves in the file: every row of
\* the table, or the old file when the export raised
LatestFile(old, rows, ok, job) ==
    IF ok THEN [written |-> TRUE, job |-> job, rows |-> Len(rows)] ELSE old

\* scraper.py:180 and :186, the file name of the snapshot
SnapshotName(t) == t \o ".csv"

\* both branches of run_scraping_job exporting to the same file
LatestNameShared(t) == "products_latest.csv"

\* scraper.py:181 and :187, the file name of the export of the table
LatestName(t) == t \o "_latest.csv"

\* scraper.py:180 and :186, the snapshot '<target>.csv'
SaveToCsv ==
    /\ pc = "csv"
    /\ \E ok \in BOOLEAN :
        files' = [files EXCEPT ![SnapshotName(target)] =
                                  SnapshotFile(@, all_data, ok, jobNo)]
    /\ seen' = Noted([seen EXCEPT !.export = @ \/ all_data # <<>>], "snapshot")
    /\ pc' = StepAfter("csv")
    /\ UNCHANGED <<caller, jobNo, jobVars, fetchVars, tables, scraping_logs, runVars>>

\* scraper.py:181 and :187, the export '<target>_latest.csv'
ExportLatest ==
    /\ pc = "export"
    /\ \E ok \in BOOLEAN :
        files' = [files EXCEPT ![LatestName(target)] =
                                  LatestFile(@, tables[target], ok, jobNo)]
    /\ seen' = Noted([seen EXCEPT !.export = TRUE], "latest")
    /\ pc' = StepAfter("export")
    /\ UNCHANGED <<caller, jobNo, jobVars, fetchVars, tables, scraping_logs, runVars>>

\* the call of log_scraping_run and the return that follows it; the store
\* takes the entry or raises SQLAlchemyError, which database.py:115 drops
LogAndReturn(raised) ==
    /\ \E accepted \in BOOLEAN, elapsed \in 0..MaxTick, tick \in 0..MaxTick :
        LET e == JobEnding(raised, records_saved, error_message) IN
        /\ scraping_logs' = LogAppended(scraping_logs, jobNo, target, e, accepted)
        /\ status' = e.status
        /\ ret' = e.returns
        /\ seen' = Noted([seen EXCEPT !.logCalls = @ + 1, !.logTaken = accepted,
                                      !.times = IF accepted
                                                THEN EntryTimes(elapsed, tick) ELSE @],
                         "log")
    /\ pc' = "job_ret"
    /\ UNCHANGED <<caller, jobNo, target, urlIdx, all_data, page, itemIdx,
                   pageStart, records_saved, error_message, fetchVars, tables,
                   files, runVars>>

\* scraper.py:192-200
LogSuccess == pc = "log_success" /\ LogAndReturn(FALSE)

\* scraper.py:202-211
LogFailed == pc = "log_failed" /\ LogAndReturn(TRUE)

\* scraper.py:281-284, the job has returned to its caller
ReturnToMain ==
    /\ pc = "job_ret"
    /\ caller = "main"
    /\ pc' = "done"
    /\ UNCHANGED <<caller, jobNo, jobVars, fetchVars, storeVars, runVars, seen>>

\* ---- run_all_scraping_jobs

\* scraper.py:213-217
CallRunAll ==
    /\ pc = "idle"
    /\ pc' = "runall_loop"
    /\ caller' = "run_all"
    /\ results' = <<>>
    /\ raIdx' = 1
    /\ stats' = <<>>
    /\ jobOrder' = <<>>
    /\ jobRets' = <<>>
    /\ UNCHANGED <<jobNo, jobVars, fetchVars, storeVars, report, seen>>

\* scraper.py:218-219, the next target's job is started
RunAllNext ==
    /\ pc = "runall_loop"
    /\ raIdx <= Len(RunAllTargets)
    /\ BeginJob(RunAllTargets[raIdx], "run_all")
    /\ UNCHANGED <<storeVars, results, raIdx, stats, report, jobRets>>

\* scraper.py:219, results[target] = ...
StoreResult(res, t, r) ==
    [x \in DOMAIN res \cup {t} |-> IF x = t THEN r ELSE res[x]]

\* scraper.py:219-220, the job's result is stored, then the pause
ReturnToRunAll ==
    /\ pc = "job_ret"
    /\ caller = "run_all"
    /\ results' = StoreResult(results, target, ret)
    /\ jobRets' = Append(jobRets, ret)
    /\ raIdx' = raIdx + 1
    /\ pc' = "runall_loop"
    /\ all_data' = <<>>
    /\ records_saved' = 0
    /\ error_message' = ""
    /\ UNCHANGED <<caller, jobNo, target, urlIdx, page, itemIdx, pageStart,
                   status, ret, fetchVars, storeVars, stats, report,
                   jobOrder, seen>>

\* database.py:156-170, the success rate, in hundredths of a percent
SuccessRate(logs) ==
    LET total == Len(logs)
        success == Cardinality({k \in 1..Len(logs) : logs[k].status = "success"})
    IN IF total > 0 THEN (success * 10000 * 2 + total) \div (2 * total) ELSE 0

\* database.py:135-175, get_scraping_stats: the statistics, or {} when the
\* query raised
ScrapingStats(tbls, logs, ok) ==
    IF ok
    THEN [total_books |-> Len(tbls.books), total_products |-> Len(tbls.products),
          success_rate |-> SuccessRate(logs)]
    ELSE <<>>

\* dict.get(key, default)
Get(d, key, default) == IF key \in DOMAIN d THEN d[key] ELSE default

\* scraper.py:231-255, the text of the report
ReportText(st, res) ==
    [books |-> IF Get(res, "books", FALSE) THEN "SUCCESS" ELSE "FAILED",
     products |-> IF Get(res, "products", FALSE) THEN "SUCCESS" ELSE "FAILED",
     total_books |-> Get(st, "total_books", 0),
     total_products |-> Get(st, "total_products", 0),
     success_rate |-> Get(st, "success_rate", 0)]

\* scraper.py:223, after the loop the statistics are queried
RunAllStats ==
    /\ pc = "runall_loop"
    /\ raIdx > Len(RunAllTargets)
    /\ \E ok \in BOOLEAN : stats' = ScrapingStats(tables, scraping_logs, ok)
    /\ pc' = "report"
    /\ UNCHANGED <<caller, jobNo, jobVars, fetchVars, storeVars, results, raIdx,
                   report, jobOrder, jobRets, seen>>

\* scraper.py:224 with :229-261 and :226-227, the report is written and the
\* results are returned
GenerateReport ==
    /\ pc = "report"
    /\ report' = ReportText(stats, results)
    /\ pc' = "runall_ret"
    /\ UNCHANGED <<caller, jobNo, jobVars, fetchVars, storeVars, results, raIdx,
                   stats, jobOrder, jobRets, seen>>

\* scraper.py:260-261, open() or write() raises OSError: nothing catches it
\* in _generate_report or in run_all_scraping_jobs
ReportRaises ==
    /\ pc = "report"
    /\ pc' = "runall_raised"
    /\ UNCHANGED <<caller, jobNo, jobVars, fetchVars, storeVars, runVars, seen>>

\* scraper.py:285-286, run_all_scraping_jobs has returned its results
RunAllReturn ==
    /\ pc = "runall_ret"
    /\ pc' = "done"
    /\ caller' = "main"
    /\ UNCHANGED <<jobNo, jobVars, fetchVars, storeVars, runVars, seen>>

\* scheduler.py:26-34, the exception of a run is caught by the scheduler
RunAllRaised ==
    /\ pc = "runall_raised"
    /\ pc' = "done"
    /\ caller' = "main"
    /\ UNCHANGED <<jobNo, jobVars, fetchVars, storeVars, runVars, seen>>

Next ==
    \/ \E t \in CallTargets : CallRunJob(t)
    \/ Dispatch
    \/ ScrapeNextUrl
    \/ ScrapeReturn
    \/ \E c \in ListingPages \cup DetailPages \cup {EmptyText} : FetchOk(c)
    \/ FetchFail
    \/ FetchCrash
    \/ FetchBackoff
    \/ PageSkip
    \/ PageParse
    \/ ItemBad
    \/ ItemProduct
    \/ ItemBook
    \/ DescReturn
    \/ PageDelay
    \/ SaveRecords
    \/ SaveToCsv
    \/ ExportLatest
    \/ LogSuccess
    \/ LogFailed
    \/ ReturnToMain
    \/ CallRunAll
    \/ RunAllNext
    \/ ReturnToRunAll
    \/ RunAllStats
    \/ GenerateReport
    \/ ReportRaises
    \/ RunAllReturn
    \/ RunAllRaised

Spec == Init /\ [][Next]_vars

\* The program is one thread: a statement that can run does run, given that
\* every request, sleep, file operation and store call comes back (returning
\* or raising), so a step that stays possible is eventually taken.
LiveSpec == Init /\ [][Next]_vars /\ WF_vars(Next)

\* ---- properties

\* the log entries of the job that is running or has just returned
JobEntries == {k \in 1..Len(scraping_logs) : scraping_logs[k].start_time = jobNo}

\* run_scraping_job has returned
JobDone == pc = "job_ret"

\* fetch_page has returned to its caller
FetchReturned == pc \in {"page_check", "desc_ret"}

\* the loop of run_all_scraping_jobs is over
RunAllLoopDone == pc \in {"report", "runall_ret", "runall_raised"}

\* C1: every execution of run_scraping_job appends exactly one entry to the
\* scraping log, wherever a failure occurs, the log write included.
C1_ExactlyOneLogEntry == JobDone => Cardinality(JobEntries) = 1

\* C2: run_scraping_job returns True exactly when the log entry of this
\* execution has status 'success' and False exactly when it has status
\* 'failed'; the returned boolean never disagrees with the status passed to
\* log_scraping_run nor with the status of the entry in the table.
C2_ReturnMatchesLoggedStatus ==
    JobDone =>
        /\ status \in {"success", "failed"}
        /\ ret <=> status = "success"
        /\ \A k \in JobEntries :
            /\ scraping_logs[k].status = status
            /\ ret <=> scraping_logs[k].status = "success"
            /\ ~ret <=> scraping_logs[k].status = "failed"

C2_Witness ==
    /\ JobDone
    /\ ret
    /\ \E k \in JobEntries : scraping_logs[k].status = "success"

\* C3: with max_retries = 3, a fetch_page call whose every request fails
\* makes exactly 3 requests, sleeps 1 and then 2 between them, does not
\* sleep after the third failure and returns None.
C3_ThreeAttemptsDoublingBackoff ==
    /\ (FetchReturned /\ html = Absent) => (fReqs = 3 /\ fSleeps = <<1, 2>>)
    /\ (pc = "fetch_sleep" => fReqs < 3)
    /\ (pc = "fetch_req" => fReqs < 3)

C3_Witness == FetchReturned /\ html = Absent /\ fReqs = 3 /\ Len(fSleeps) = 2

\* C4: run_all_scraping_jobs runs the books job and then the products job,
\* each once, whatever the books job returned, and the mapping it returns
\* has exactly the keys books and products, each with its own job's result.
C4_RunAllOrderAndResults ==
    /\ RunAllLoopDone => (jobOrder = <<"books", "products">> /\ Len(jobRets) = 2)
    /\ pc = "runall_ret" =>
        /\ DOMAIN results = {"books", "products"}
        /\ results["books"] = jobRets[1]
        /\ results["products"] = jobRets[2]

C4_Witness ==
    /\ pc = "runall_ret"
    /\ DOMAIN results = {"books", "products"}
    /\ ~results["books"]
    /\ results["products"]

\* C5: run_all_scraping_jobs never raises, whatever fails in a job, in the
\* statistics query or in the writing of the report, and a failed
\* statistics query gives the report its default statistics.
C5_RunAllNeverRaises ==
    /\ pc # "runall_raised"
    /\ (pc = "runall_ret" /\ stats = <<>>) =>
        (report.total_books = 0 /\ report.total_products = 0 /\ report.success_rate = 0)

\* C6: a store that rejects the insert of the job's records makes the job
\* fail: status 'failed' with the error as message, and False returned.
C6_PersistenceErrorFailsJob ==
    (JobDone /\ seen.rejected) =>
        /\ ~ret
        /\ status = "failed"
        /\ error_message # ""
        /\ \A k \in JobEntries : scraping_logs[k].status = "failed"

\* rows of table t carrying the stamp of job j
RowsAdded(t, j) ==
    IF t \in DOMAIN tables
    THEN Cardinality({k \in 1..Len(tables[t]) : tables[t][k] = j})
    ELSE 0

\* C7: in every log entry records_scraped is the number of records the
\* store committed for that job, which is also the number of rows the job
\* added to its table; it is 0 when the store rejected the insert although
\* records were extracted.
C7_RecordsScrapedIsCommittedCount ==
    /\ \A k \in 1..Len(scraping_logs) :
        scraping_logs[k].records_scraped =
            RowsAdded(scraping_logs[k].target, scraping_logs[k].start_time)
    /\ (JobDone /\ seen.rejected) =>
        \A k \in JobEntries : scraping_logs[k].records_scraped = 0
    /\ (JobDone /\ status = "success" /\ ~seen.rejected) =>
        \A k \in JobEntries : scraping_logs[k].records_scraped = Len(all_data)

C7_Witness ==
    /\ JobDone
    /\ seen.rejected
    /\ all_data # <<>>
    /\ \E k \in JobEntries : scraping_logs[k].records_scraped = 0

\* positions of the thread inside run_scraping_job
JobPcs ==
    {"dispatch", "scrape_url", "fetch_req", "fetch_sleep", "page_check", "items",
     "desc_ret", "save", "csv", "export", "log_success", "log_failed", "job_ret"}

\* every URL of the target has been fetched and every fetch returned None
AllUnreachable ==
    /\ pc \in JobPcs
    /\ target \in DOMAIN TARGET_URLS
    /\ seen.absent = Len(TARGET_URLS[target])

\* C8: when every URL of a target is unreachable the scraper returns an
\* empty list and the job is no error: log_scraping_run is called with
\* status 'success' and records_scraped 0, and True is returned.
C8_UnreachableUrlsSucceedEmpty ==
    AllUnreachable =>
        /\ all_data = <<>>
        /\ pc # "log_failed"
        /\ JobDone =>
            /\ ret
            /\ status = "success"
            /\ records_saved = 0
            /\ seen.logCalls = 1
            /\ seen.logTaken => Cardinality(JobEntries) = 1
            /\ \A k \in JobEntries :
                /\ scraping_logs[k].status = "success"
                /\ scraping_logs[k].records_scraped = 0

C8_Witness ==
    /\ JobDone
    /\ target = "books"
    /\ seen.absent = 2
    /\ ret
    /\ \E k \in JobEntries :
        scraping_logs[k].status = "success" /\ scraping_logs[k].records_scraped = 0

\* C9: run_scraping_job with a target other than books and products only
\* goes through the failed branch: no request, no insert into a data
\* table, no file written, one call of log_scraping_run with status
\* 'failed', 0 records and an error message, and False returned.
C9_UnknownTargetFailsWithoutSideEffects ==
    (pc \in JobPcs /\ target \notin {"books", "products"}) =>
        /\ pc \in {"dispatch", "log_failed", "job_ret"}
        /\ ~seen.fetch
        /\ ~seen.insert
        /\ ~seen.export
        /\ \A f \in FileNames : files[f].job # jobNo
        /\ \A t \in DOMAIN tables : RowsAdded(t, jobNo) = 0
        /\ JobDone =>
            /\ ~ret
            /\ status = "failed"
            /\ error_message # ""
            /\ seen.logCalls = 1
            /\ Cardinality(JobEntries) <= 1
            /\ seen.logTaken => Cardinality(JobEntries) = 1
            /\ \A k \in JobEntries :
                /\ scraping_logs[k].status = "failed"
                /\ scraping_logs[k].records_scraped = 0
                /\ scraping_logs[k].error_message = error_message
                /\ scraping_logs[k].target = target

C9_Witness ==
    /\ JobDone
    /\ target = OtherTarget
    /\ ~ret
    /\ \E k \in JobEntries :
        scraping_logs[k].status = "failed" /\ scraping_logs[k].records_scraped = 0

\* the item blocks the records appended since the page was parsed came from
PageRecordItems ==
    [k \in 1..(Len(all_data) - pageStart) |-> all_data[pageStart + k].item]

\* the item loop of the current page is over
PageDone == pc = "items" /\ itemIdx > Len(page)

\* C10: extracting a page with N item blocks of which k raise lets no
\* exception out of the extractor: the job does not fail for it, and the
\* records of the page are the N-k well-formed blocks, in document order,
\* none dropped as a duplicate, the ones after a malformed block included.
C10_ExtractionSkipsMalformedItems ==
    /\ pc = "items" =>
        /\ itemIdx <= Len(page) + 1
        /\ PageRecordItems = GoodIndices(SubSeq(page, 1, itemIdx - 1))
    /\ PageDone =>
        /\ PageRecordItems = GoodIndices(page)
        /\ Len(PageRecordItems) =
               Len(page) - Cardinality({i \in 1..Len(page) : page[i] = "bad"})
    /\ pc = "log_failed" => error_message \in {"Unknown target", "fetch raised"}

C10_Witness ==
    /\ PageDone
    /\ page = <<"bad", "good">>
    /\ PageRecordItems = <<2>>

\* the scrape has gone through its whole URL list and returned
ScrapeDone == pc = "save"

\* C11: over a URL list of length n the scrape sleeps the politeness delay
\* after each URL, fetched or absent, except after the last one: exactly
\* n-1 delays, whatever the fetches gave.
C11_DelayBetweenUrlsOnly ==
    ScrapeDone => seen.delays = Len(TARGET_URLS[target]) - 1

\* the job has exported its table and the export was written
LatestExported ==
    /\ pc \in {"log_success", "job_ret"}
    /\ target \in DOMAIN tables
    /\ files[target \o "_latest.csv"].job = jobNo

\* C12 as stated: after a job has saved its records and exported the table,
\* '<target>_latest.csv' has as many rows as the store reported persisted
\* for that job, whatever jobs ran before on the same store.
C12_LatestRowsEqualJobCount ==
    LatestExported => files[target \o "_latest.csv"].rows = records_saved

\* C12 amended: the export holds every row of the table, the rows of
\* earlier jobs and then the rows this job persisted; its row count is the
\* job's count only when the table was empty before the job.
C12_LatestRowsEqualTableRows ==
    LatestExported =>
        /\ files[target \o "_latest.csv"].rows = Len(tables[target])
        /\ files[target \o "_latest.csv"].rows =
               (Len(tables[target]) - RowsAdded(target, jobNo)) + records_saved
        /\ (Len(tables[target]) = RowsAdded(target, jobNo)) =>
               files[target \o "_latest.csv"].rows = records_saved

C12_Witness ==
    /\ LatestExported
    /\ JobDone
    /\ records_saved > 0
    /\ files[target \o "_latest.csv"].rows > records_saved

\* the item blocks of the records scraped so far
AllItems == [k \in 1..Len(all_data) |-> all_data[k].item]

\* the well-formed blocks of the URLs in u, one URL after the other
RECURSIVE ConcatItems(_)
ConcatItems(u) ==
    IF u = <<>> THEN <<>>
    ELSE ConcatItems(SubSeq(u, 1, Len(u) - 1)) \o u[Len(u)].items

\* C13: a URL whose fetch returns None is skipped and the crawl goes on:
\* every URL of the list is fetched, in list order, and the scrape returns
\* the records of the URLs that were fetched, concatenated in URL order.
C13_AbsentUrlSkippedCrawlGoesOn ==
    /\ pc \in JobPcs =>
        /\ \A k \in 1..Len(seen.urls) :
            /\ seen.urls[k].url = k
            /\ ~seen.urls[k].fetched => seen.urls[k].items = <<>>
        /\ seen.absent <= Len(seen.urls) + 1
    /\ pc = "scrape_url" =>
        /\ Len(seen.urls) = urlIdx - 1
        /\ AllItems = ConcatItems(seen.urls)
    /\ ScrapeDone =>
        /\ Len(seen.urls) = Len(TARGET_URLS[target])
        /\ AllItems = ConcatItems(seen.urls)

C13_Witness ==
    /\ ScrapeDone
    /\ target = "books"
    /\ ~seen.urls[1].fetched
    /\ seen.urls[2].fetched
    /\ AllItems = <<1, 2>>

\* fetch_page has returned the text of a response
FetchAnswered == FetchReturned /\ html.kind \in {"page", "empty"}

\* C14: when the endpoint fails k times (k < max attempts) and then answers,
\* fetch_page has made k+1 requests, slept 2^(i-1) after failed attempt i for
\* i = 1..k and nowhere else, makes no request after the response, also an
\* empty one, and returns the content of that response.
C14_AnswerAfterKFailures ==
    /\ FetchAnswered =>
        /\ fReqs \in 1..max_retries
        /\ fSleeps = [i \in 1..(fReqs - 1) |-> 2 ^ (i - 1)]
        /\ html \in Contents(ctx)
    /\ pc \in {"fetch_req", "fetch_sleep"} => html = Absent
    /\ pc = "fetch_req" => Len(fSleeps) = fReqs
    /\ pc = "fetch_sleep" => Len(fSleeps) = fReqs - 1

C14_Witness == FetchAnswered /\ html = EmptyText /\ fReqs = 3 /\ fSleeps = <<1, 2>>

\* the place of a step in the lifecycle Started, Scraping,
\* Persisting/Exporting, Logged
Rank(ph) ==
    CASE ph = "start" -> 1
      [] ph = "fetch" -> 2
      [] ph = "store" -> 3
      [] ph \in {"snapshot", "latest"} -> 4
      [] ph = "log" -> 5

\* C15: within one run_scraping_job the start timestamp is taken before any
\* fetch, the store append comes after the scrape, the snapshot and the
\* 'latest' export come after the store append, the log append comes after
\* them, and nothing is fetched, stored or exported after the log append.
C15_LifecycleOrder ==
    LET ph == seen.phases IN
    /\ pc \in JobPcs =>
        /\ ph # <<>> /\ ph[1] = "start"
        /\ \A i, j \in 1..Len(ph) :
            i < j => \/ Rank(ph[i]) < Rank(ph[j])
                     \/ {ph[i], ph[j]} = {"snapshot", "latest"}
        /\ \A i \in 1..Len(ph) :
            ph[i] \in {"snapshot", "latest"} => \E k \in 1..(i - 1) : ph[k] = "store"
    /\ JobDone => ph[Len(ph)] = "log"
    /\ (JobDone /\ status = "success") =>
           ph \in {<<"start", "fetch", "store", "snapshot", "latest", "log">>,
                   <<"start", "fetch", "store", "latest", "snapshot", "log">>}

C15_Witness ==
    /\ JobDone
    /\ seen.phases = <<"start", "fetch", "store", "snapshot", "latest", "log">>
    /\ records_saved > 0

\* C16: every job whose scrape completes writes '<target>.csv' from its
\* in-memory records: after the job the file holds exactly the records this
\* job scraped, also when there are none, never those of an earlier job.
C16_SnapshotIsThisJobsRecords ==
    (JobDone /\ status = "success") =>
        files[target \o ".csv"] =
            [written |-> TRUE, job |-> jobNo, rows |-> Len(all_data)]

\* C17: in the books extractor an item whose detail-page fetch returns None
\* or raises is still appended as a record, with the empty string as its
\* description; such a failure drops no item and fails neither the page
\* nor the job.
C17_DetailFailureGivesEmptyDescription ==
    /\ pc = "items" =>
        \A i \in seen.degraded :
            \E k \in (pageStart + 1)..Len(all_data) :
                /\ all_data[k].item = i
                /\ all_data[k].description = ""
    /\ PageDone => PageRecordItems = GoodIndices(page)
    /\ pc = "log_failed" => ctx = "listing"
    /\ (JobDone /\ status = "failed") => ctx = "listing"

C17_Witness ==
    /\ PageDone
    /\ target = "books"
    /\ page = <<"good", "good">>
    /\ seen.degraded = {1}
    /\ all_data[pageStart + 1].description = ""
    /\ all_data[pageStart + 2].description = "meta"

\* C18: for every log entry the duration equals end timestamp minus start
\* timestamp of that entry and is not negative, however far the clock
\* advances between the clock reads made while the entry is built and
\* inserted.
C18_DurationIsEndMinusStart ==
    (JobDone /\ seen.logTaken) =>
        /\ Cardinality(JobEntries) = 1
        /\ seen.times.duration_seconds = seen.times.end_after_start
        /\ seen.times.duration_seconds >= 0

\* C19: between any two consecutive requests of a target's crawl (listing
\* fetches, retries and detail fetches alike) there is a pause, a politeness
\* delay or a backoff: no request is sent right after another one.
C19_PauseBetweenRequests ==
    pc = "fetch_req" => seen.lastNet # "req"

\* a step of a job leaves the tables and files of the other target as they are
OthersUntouched ==
    pc \in JobPcs =>
        \A t \in {"books", "products"} \ {target} :
            /\ tables'[t] = tables[t]
            /\ files'[t \o ".csv"] = files[t \o ".csv"]
            /\ files'[t \o "_latest.csv"] = files[t \o "_latest.csv"]

\* C20: a job for one target touches only that target's data: no step of a
\* books job changes the products table, products.csv or
\* products_latest.csv, and no step of a products job changes the books
\* table, books.csv or books_latest.csv.
C20_JobTouchesOwnTargetOnly == [][OthersUntouched]_vars

C20_Witness ==
    /\ JobDone
    /\ caller = "run_all"
    /\ target = "products"
    /\ records_saved > 0
    /\ files["products.csv"].job = jobNo
    /\ files["products_latest.csv"].job = jobNo
    /\ tables["books"] # <<>>
    /\ \A k \in 1..Len(tables["books"]) : tables["books"][k] < jobNo
    /\ files["books.csv"].job = jobNo - 1
    /\ files["books_latest.csv"].job = jobNo - 1

\* a step keeps every row of every data table where it is, as it is
RowsKept ==
    \A t \in DOMAIN tables :
        /\ Len(tables'[t]) >= Len(tables[t])
        /\ SubSeq(tables'[t], 1, Len(tables[t])) = tables[t]

\* the save of a job grows the job's table by the count it returns, with
\* rows of this job; no other step of the program changes a data table
GrowsByReturnedCount ==
    IF pc = "save"
    THEN /\ Len(tables'[target]) = Len(tables[target]) + records_saved'
         /\ records_saved' \in {0, Len(all_data)}
         /\ \A k \in (Len(tables[target]) + 1)..Len(tables'[target]) :
                tables'[target][k] = jobNo
    ELSE tables' = tables

\* C21: the data tables are append-only and nothing is deduplicated: no
\* step removes or changes a row of books or products, each job grows its
\* target's table by exactly the count _save_data returned (0 on rejection,
\* never part of a batch), so the rows a job added are as many as the count
\* returned to it, and a record scraped twice is stored twice.
C21_TablesAppendOnly ==
    /\ [][RowsKept /\ GrowsByReturnedCount]_vars
    /\ [](pc \in JobPcs => RowsAdded(target, jobNo) = records_saved)

C21_Witness ==
    /\ JobDone
    /\ target = "books"
    /\ Len(all_data) = 2
    /\ all_data[1] = all_data[2]
    /\ records_saved = 2
    /\ tables["books"] = <<0, jobNo, jobNo>>

\* C22: when every request and every store call returns or fails, every
\* run of run_all_scraping_jobs terminates: no fetch_page call makes more
\* than max_retries requests, every job that has started reaches its return
\* (succeeded or failed), and the run returns its result mapping.
C22_RunAllTerminatesWithResults ==
    /\ [](fReqs <= max_retries)
    /\ (pc \in JobPcs) ~> JobDone
    /\ (caller = "run_all") ~> (pc = "runall_ret")

====
